---- MODULE Spec2Model ----
(***************************************************************************)
(* Model of the macro-resolution pipeline of mcp-atlassian's preprocessing *)
(* package (BasePreprocessor / ConfluencePreprocessor), and of the         *)
(* attachment proxy service (standalone_proxy.py) in the last section.     *)
(*                                                                         *)
(* The parsed document is a sequence of nodes in document (pre-)order;     *)
(* node n names its parent by index (0 is the soup object).  A call of     *)
(* replace_with(x) on node n is recorded in repl[n]: the replacement takes *)
(* n's place under n's parent, and n, with everything below it, becomes a  *)
(* detached tree whose root has no parent.  Nodes a pass collected with    *)
(* find_all before they were detached are still processed by that pass.    *)
(*                                                                         *)
(* Strings are sequences of chunks (TLA+ strings); file names are          *)
(* sequences of single characters so that percent-encoding is computed.    *)
(* Python's None is the string "None"; an absent or empty ri:filename is   *)
(* the empty sequence (the code only tests its truth value).               *)
(***************************************************************************)
EXTENDS Integers, Sequences, FiniteSets, TLC

VARIABLES
    init_args,      \* the arguments the preprocessor was constructed with
    base_url,       \* self.base_url
    self_preserve,  \* self.preserve_inline_attachments
    proxy_host,     \* self.proxy_host
    proxy_port,     \* self.proxy_port
    proxy_base_path,\* self.proxy_base_path
    pc,             \* position inside process_html_content
    html,           \* the parsed input document (soup as parsed)
    client,         \* confluence_client argument: "None" or "client"
    page_id,        \* page_id argument: "None" or a content id
    flag_arg,       \* preserve_inline_attachments argument: "None", "True", "False"
    preserve,       \* preserve_inline_attachments as passed to the base method
    repl,           \* repl[n]: what node n was replaced with (NoRepl if not)
    queue,          \* the result of the running pass's find_all
    cursor,         \* index into queue of the next element of the for loop
    calls,          \* log of the calls made on confluence_client
    passes,         \* log of the attachment passes started, in order
    reprocessed,    \* whether this call's input is an earlier call's output
    url_args,       \* arguments of the last _construct_attachment_download_url
    download_url,   \* the value that call returned
    result,         \* the (processed_html, processed_markdown) pair returned
    config,         \* standalone_proxy: CONFLUENCE_URL, _USERNAME, _API_TOKEN all set
    cache,          \* standalone_proxy: the TTLCache, cache key -> entry
    requests,       \* standalone_proxy: log of the GETs sent upstream
    answer,         \* standalone_proxy: the response to the last attachment request
    page_answer     \* standalone_proxy: the response to the last page request

instance == <<init_args, base_url, self_preserve, proxy_host, proxy_port,
              proxy_base_path>>
args == <<html, client, page_id, flag_arg, preserve>>
built == <<url_args, download_url>>
service == <<config, cache, requests, answer, page_answer>>

vars == <<instance, pc, args, repl, queue, cursor, calls, passes, reprocessed,
          built, result, service>>

-----------------------------------------------------------------------------
(* Bounds *)

MaxNodes == 4
MaxNameLen == 3

-----------------------------------------------------------------------------
(* Values *)

None == "None"

Truthy(s) == s # None /\ s # ""

\* The characters file names are drawn from.
Chars == {"a", "/", ".", "-", "_", "~", " ", "#", "%"}

\* urllib.parse.quote's always-safe characters (letters, digits, "_.-~")
\* that occur in Chars; "/" is safe by quote's default argument safe="/".
AlwaysSafe == {"a", ".", "-", "_", "~"}

\* The file name the documents of the pipeline specification use.
FileName == <<"a", "-", "a", "_", "a", " ", "a", "/", "a", ".", "a">>

MkNode(tag, parent) ==
    [tag |-> tag, parent |-> parent, account_id |-> None, userkey |-> None,
     filename |-> <<>>, name |-> None, text |-> <<>>]

NoRepl == [type |-> "none"]
TextNode(s) == [type |-> "text", s |-> s]
ImgTag(src, alt) == [type |-> "img", src |-> src, alt |-> alt]
ATag(href, string) == [type |-> "a", href |-> href, string |-> string]

-----------------------------------------------------------------------------
(* Input documents: every tree of at most MaxNodes nodes over the markup   *)
(* vocabulary, in document order.                                          *)

Link(p) == MkNode("ac:link", p)
Image(p) == MkNode("ac:image", p)
Profile(p) == [MkNode("ac:structured-macro", p) EXCEPT !.name = "profile"]
User(p, a, k) == [MkNode("ri:user", p) EXCEPT !.account_id = a, !.userkey = k]
Attachment(p, f) == [MkNode("ri:attachment", p) EXCEPT !.filename = f]
LinkBody(p, s) == [MkNode("ac:link-body", p) EXCEPT !.text = s]
Parameter(p, n, s) == [MkNode("ac:parameter", p) EXCEPT !.name = n, !.text = s]
PlainLink(p) == [MkNode("a", p) EXCEPT !.text = <<"Example">>]

Attachments(p) == {Attachment(p, f) : f \in {<<>>, FileName}}

\* The nodes that may be appended under parent p (0: the document itself).
\* A plain <a>, which no pass selects, is generated as the first node only.
Kids(t, p) ==
    LET tag == IF p = 0 THEN "[document]" ELSE t[p].tag
        nm == IF p = 0 THEN None ELSE t[p].name
    IN CASE tag = "[document]" ->
              {Link(p), Image(p), Profile(p)} \cup Attachments(p)
              \cup (IF t = <<>> THEN {PlainLink(p)} ELSE {})
         [] tag = "ac:link" ->
              {Link(p), Image(p)} \cup Attachments(p)
              \cup {User(p, a, None) : a \in {"a1", None}}
              \cup {LinkBody(p, s) : s \in {<<"@", "Bob">>, <<"Doc">>}}
         [] tag = "ac:structured-macro" ->
              {Parameter(p, "user", <<>>), Parameter(p, "width", <<"9">>)}
         [] tag = "ac:parameter" /\ nm = "user" ->
              {User(p, a, k) : a \in {"a1", None}, k \in {"k1", None}}
         [] tag = "ac:image" ->
              Attachments(p)
              \cup {Parameter(p, "alt", <<"Alt">>), Parameter(p, "alt", <<>>),
                    Parameter(p, "title", <<"Title">>),
                    Parameter(p, "caption", <<"Cap">>),
                    Parameter(p, "width", <<"9">>)}
         [] OTHER -> {}

RECURSIVE AncestorsOrSelf(_, _)
AncestorsOrSelf(t, n) ==
    IF n = 0 THEN {0} ELSE {n} \cup AncestorsOrSelf(t, t[n].parent)

\* Appending a node keeps document order when its parent is the last node
\* or one of the last node's ancestors.
Extend(t) ==
    UNION {{Append(t, c) : c \in Kids(t, p)} : p \in AncestorsOrSelf(t, Len(t))}

RECURSIVE DocsOfSize(_)
DocsOfSize(n) ==
    IF n = 0 THEN {<<>>} ELSE UNION {Extend(t) : t \in DocsOfSize(n - 1)}

Docs == UNION {DocsOfSize(n) : n \in 0..MaxNodes}

-----------------------------------------------------------------------------
(* The tree API the passes use (bs4), over a document t and the            *)
(* replacements r made so far.                                             *)

Replaced(r, n) == r[n].type # "none"

\* Variant: a replaced node keeps its place, and what is below it stays
\* reachable.
RECURSIVE Under_Attached(_, _, _, _)
Under_Attached(t, r, d, e) ==
    LET p == t[d].parent IN p = e \/ (p # 0 /\ Under_Attached(t, r, p, e))

\* d lies below e (e = 0: d is part of the live document).  A replaced node
\* is detached: it has no parent any more.
RECURSIVE Under(_, _, _, _)
Under(t, r, d, e) ==
    IF Replaced(r, d) THEN FALSE
    ELSE LET p == t[d].parent IN p = e \/ (p # 0 /\ Under(t, r, p, e))

\* Variant: a name filter matches every node.
Matches_Loose(t, n, tag, name) == t[n].tag = tag \/ name # None

Matches(t, n, tag, name) ==
    t[n].tag = tag /\ (name = None \/ t[n].name = name)

\* element.find(tag, attrs={"ac:name": name}): the first match below e in
\* document order, 0 when there is none.
Find(t, r, e, tag, name) ==
    LET S == {d \in 1..Len(t) : Under(t, r, d, e) /\ Matches(t, d, tag, name)}
    IN IF S = {} THEN 0 ELSE CHOOSE d \in S : \A x \in S : d <= x

RECURSIVE Ascending(_)
Ascending(S) ==
    IF S = {} THEN <<>>
    ELSE LET m == CHOOSE d \in S : \A x \in S : d <= x
         IN <<m>> \o Ascending(S \ {m})

\* e.find_all(tag, attrs={"ac:name": name}): all matches below e (0: the
\* soup, that is the live document), in document order.
FindAll(t, r, e, tag, name) ==
    Ascending({d \in 1..Len(t) : Under(t, r, d, e) /\ Matches(t, d, tag, name)})

\* element.find_parent(tag): the nearest ancestor with that tag, 0 if none.
RECURSIVE FindParent(_, _, _, _)
FindParent(t, r, n, tag) ==
    IF Replaced(r, n) THEN 0
    ELSE LET p == t[n].parent
         IN IF p = 0 THEN 0
            ELSE IF t[p].tag = tag THEN p ELSE FindParent(t, r, p, tag)

\* element.get_text(strip=True) of a link-body or parameter.
GetText(t, n) == t[n].text

\* element.replace_with(x)
ReplaceWith(r, n, x) == [r EXCEPT ![n] = x]

\* "c" in s, for a character c that is a chunk of its own in s.
Contains(s, c) == \E i \in DOMAIN s : s[i] = c

-----------------------------------------------------------------------------
(* Construction *)

\* Variant: one trailing "/" is removed at most.
RStrip_Once(s) ==
    IF s # <<>> /\ s[Len(s)] = "/" THEN SubSeq(s, 1, Len(s) - 1) ELSE s

\* str.rstrip("/")
RECURSIVE RStrip(_)
RStrip(s) ==
    IF s # <<>> /\ s[Len(s)] = "/" THEN RStrip(SubSeq(s, 1, Len(s) - 1)) ELSE s

\* BasePreprocessor.__init__
BaseInit(base_arg) == IF base_arg # <<>> THEN RStrip(base_arg) ELSE <<>>

NoResult == [returned |-> FALSE, raised |-> None]

\* Variant: the call returns although the step raised.
Raised_Partial(at) == [returned |-> TRUE, raised |-> at]

\* The exception of step `at` left process_html_content (logged, re-raised).
Raised(at) == [returned |-> FALSE, raised |-> at]

InitArgs(base, flag, host, port, path) ==
    [base_url |-> base, preserve_inline_attachments |-> flag,
     proxy_host |-> host, proxy_port |-> port, proxy_base_path |-> path]

\* The constructor calls considered: an instance with the default settings,
\* and one that inlines attachments and is given a proxy.
Constructions ==
    {InitArgs(<<"https://h", "/">>, FALSE, None, None, None),
     InitArgs(<<"https://h", "/", "/">>, TRUE, "0.0.0.0", "8002", "/proxy")}

\* An empty response record of the proxy service, and the service as its
\* process starts: nothing cached, nothing requested, nothing answered.
NoAnswer == [status |-> None]
EmptyCache == [k \in {} |-> NoAnswer]
ServiceStarts ==
    /\ cache = EmptyCache
    /\ requests = <<>>
    /\ answer = NoAnswer
    /\ page_answer = NoAnswer

\* ConfluencePreprocessor.__init__
Constructed ==
    /\ init_args \in Constructions
    /\ base_url = BaseInit(init_args.base_url)
    /\ self_preserve = init_args.preserve_inline_attachments
    /\ proxy_host = init_args.proxy_host
    /\ proxy_port = init_args.proxy_port
    /\ proxy_base_path = init_args.proxy_base_path
    /\ pc = "idle"
    /\ html = <<>>
    /\ client = None
    /\ page_id = None
    /\ flag_arg = None
    /\ preserve = FALSE
    /\ repl = <<>>
    /\ queue = <<>>
    /\ cursor = 1
    /\ calls = <<>>
    /\ passes = <<>>
    /\ reprocessed = FALSE
    /\ url_args = <<>>
    /\ download_url = <<>>
    /\ result = NoResult

\* A preprocessor is constructed; the proxy service, a process of its own,
\* is configured and has served nothing.
Init ==
    /\ Constructed
    /\ config = TRUE
    /\ ServiceStarts

-----------------------------------------------------------------------------
(* URL Builder *)

\* The percent-encoded UTF-8 bytes of the characters quote() escapes.
Escaped(c) ==
    CASE c = " " -> <<"%", "2", "0">>
      [] c = "#" -> <<"%", "2", "3">>
      [] c = "%" -> <<"%", "2", "5">>

\* Variant: the file name is written into the URL as it is.
Quote_Raw(f) == f

\* urllib.parse.quote(filename), safe="/"
RECURSIVE Quote(_)
Quote(f) ==
    IF f = <<>> THEN <<>>
    ELSE LET c == Head(f)
         IN (IF c \in AlwaysSafe \cup {"/"} THEN <<c>> ELSE Escaped(c))
            \o Quote(Tail(f))

\* BasePreprocessor._construct_attachment_download_url
ConstructAttachmentDownloadUrl(base, pid, filename) ==
    base \o <<"/download/attachments/", pid, "/">> \o Quote(filename)

RECURSIVE NamesOfLen(_)
NamesOfLen(n) ==
    IF n = 0 THEN {<<>>}
    ELSE {Append(f, c) : f \in NamesOfLen(n - 1), c \in Chars}

\* A direct call of _construct_attachment_download_url(base, pid, filename),
\* for every base, content id and file name of at most MaxNameLen characters.
ConstructUrl ==
    /\ pc = "idle"
    /\ \E base \in {<<>>, <<"https://h">>, <<"https://h", "/">>},
          pid \in {"12345", "7"}, n \in 0..MaxNameLen :
         \E filename \in NamesOfLen(n) :
           /\ url_args' = <<base, pid, filename>>
           /\ download_url' = ConstructAttachmentDownloadUrl(base, pid, filename)
    /\ pc' = "url"
    /\ UNCHANGED <<service, instance, args, repl, queue, cursor, calls, result, passes, reprocessed>>

-----------------------------------------------------------------------------
(* Identity resolver (confluence_client): each call either raises or       *)
(* returns a record whose displayName is a name, "" or missing (None).     *)

Raise == "<raise>"
Replies == {"Alice", "", None, Raise}

Call(fn, arg, node, reply) ==
    [fn |-> fn, arg |-> arg, node |-> node, reply |-> reply]

-----------------------------------------------------------------------------
(* Pipeline Orchestrator: entry *)

\* if preserve_inline_attachments is None: use the instance setting
InlineFlag(flag, setting) == IF flag = None THEN setting ELSE flag = "True"

\* ConfluencePreprocessor.process_html_content (the flag defaults to the
\* instance setting), then BasePreprocessor.process_html_content up to the
\* first find_all.  A failing parse is logged and re-raised.
Process ==
    /\ pc = "idle"
    /\ \E doc \in Docs, c \in {None, "client"}, pid \in {None, "12345"},
          flag \in {None, "True", "False"}, parsed \in BOOLEAN :
         IF parsed
         THEN /\ pc' = "mentions"
              /\ html' = doc
              /\ client' = c
              /\ page_id' = pid
              /\ flag_arg' = flag
              /\ preserve' = InlineFlag(flag, self_preserve)
              /\ repl' = [n \in 1..Len(doc) |-> NoRepl]
              /\ queue' = FindAll(doc, [n \in 1..Len(doc) |-> NoRepl], 0, "ac:link", None)
              /\ cursor' = 1
              /\ result' = result
         ELSE /\ pc' = "raised"
              /\ result' = Raised("parse")
              /\ UNCHANGED <<args, repl, queue, cursor>>
    /\ UNCHANGED <<service, instance, calls, passes, built, reprocessed>>

-----------------------------------------------------------------------------
(* User Mention Rewriter *)

\* Variant: the fallback drops the "user_" prefix.
FallbackUserMention_NoPrefix(account_id) == TextNode(<<"@", account_id>>)

\* BasePreprocessor._use_fallback_user_mention
FallbackUserMention(account_id) == TextNode(<<"@user_", account_id>>)

\* Variant: the resolved display name is written without the "@".
UserMentionText_NoAt(c, account_id, reply) ==
    IF c # None /\ reply # Raise /\ Truthy(reply)
    THEN TextNode(<<reply>>)
    ELSE FallbackUserMention(account_id)

\* BasePreprocessor._replace_user_mention: the text that replaces the link,
\* given the resolver's reply (ignored when there is no client).
UserMentionText(c, account_id, reply) ==
    IF c # None /\ reply # Raise /\ Truthy(reply)
    THEN TextNode(<<"@", reply>>)
    ELSE FallbackUserMention(account_id)

ReplaceUserMention(e, account_id) ==
    IF client # None
    THEN \E reply \in Replies :
           /\ calls' = Append(calls,
                  Call("get_user_details_by_accountid", account_id, e, reply))
           /\ repl' = ReplaceWith(repl, e, UserMentionText(client, account_id, reply))
    ELSE /\ calls' = calls
         /\ repl' = ReplaceWith(repl, e, UserMentionText(client, account_id, None))

\* The account id _process_user_mentions_in_soup extracts from link e
\* (None: e is not a mention).  Attribute values are always str.
MentionAccountId(t, r, e) ==
    LET user_ref == Find(t, r, e, "ri:user", None)
        link_body == Find(t, r, e, "ac:link-body", None)
        has_id == user_ref # 0 /\ Truthy(t[user_ref].account_id)
    IN IF has_id THEN t[user_ref].account_id
       ELSE IF link_body # 0 /\ Contains(GetText(t, link_body), "@") /\ has_id
            THEN t[user_ref].account_id
            ELSE None

\* One iteration of the for loop of _process_user_mentions_in_soup.
MentionStep ==
    /\ pc = "mentions"
    /\ cursor <= Len(queue)
    /\ LET e == queue[cursor]
           account_id == MentionAccountId(html, repl, e)
       IN IF account_id # None
          THEN ReplaceUserMention(e, account_id)
          ELSE UNCHANGED <<repl, calls>>
    /\ cursor' = cursor + 1
    /\ UNCHANGED <<service, instance, pc, args, queue, built, result, passes, reprocessed>>

\* The loop ends; _process_user_profile_macros_in_soup starts.
MentionsDone ==
    /\ pc = "mentions"
    /\ cursor > Len(queue)
    /\ pc' = "profiles"
    /\ queue' = FindAll(html, repl, 0, "ac:structured-macro", "profile")
    /\ cursor' = 1
    /\ UNCHANGED <<service, instance, args, repl, calls, built, result, passes, reprocessed>>

-----------------------------------------------------------------------------
(* Profile Macro Rewriter *)

\* Variant: a malformed macro gets the unknown-user fallback text.
Malformed_AsUnknown == TextNode(<<"[User Profile: ", "unknown_user", "]">>)

Malformed == TextNode(<<"[User Profile Macro (Malformed)]">>)

\* The ri:user of profile macro e, 0 when the macro is malformed.
ProfileUserRef(t, r, e) ==
    LET user_param == Find(t, r, e, "ac:parameter", "user")
    IN IF user_param = 0 THEN 0 ELSE Find(t, r, user_param, "ri:user", None)

\* Variant: userkey or account_id.
UserIdentifier_KeyFirst(account_id, userkey) ==
    IF Truthy(userkey) THEN userkey ELSE account_id

\* user_identifier_for_log = account_id or userkey
UserIdentifier(account_id, userkey) ==
    IF Truthy(account_id) THEN account_id ELSE userkey

\* Variant: a client is called whether or not there is an identifier.
ProfileLookup_Always(c, account_id, userkey) ==
    IF c # None
    THEN IF Truthy(userkey) /\ ~Truthy(account_id)
         THEN "get_user_details_by_username"
         ELSE "get_user_details_by_accountid"
    ELSE None

\* Variant: the user key is looked up first whenever there is one.
ProfileLookup_UsernameFirst(c, account_id, userkey) ==
    IF c # None /\ Truthy(UserIdentifier(account_id, userkey))
    THEN IF Truthy(userkey) THEN "get_user_details_by_username"
         ELSE IF Truthy(account_id) THEN "get_user_details_by_accountid"
         ELSE None
    ELSE None

\* The resolver method the profile pass calls, None when it calls none.
ProfileLookup(c, account_id, userkey) ==
    IF c # None /\ Truthy(UserIdentifier(account_id, userkey))
    THEN IF Truthy(account_id) THEN "get_user_details_by_accountid"
         ELSE IF Truthy(userkey) THEN "get_user_details_by_username"
         ELSE None
    ELSE None

\* The identifier passed to that method.
ProfileLookupArg(account_id, userkey, fn) ==
    IF fn = "get_user_details_by_accountid" THEN account_id ELSE userkey

\* The text that replaces a well-formed profile macro; display_name stays
\* None when no call is made or the call raises.
ProfileText(account_id, userkey, fn, reply) ==
    LET display_name == IF fn = None \/ reply = Raise THEN None ELSE reply
        ident == UserIdentifier(account_id, userkey)
    IN IF Truthy(display_name)
       THEN TextNode(<<"@", display_name>>)
       ELSE TextNode(<<"[User Profile: ",
                       IF Truthy(ident) THEN ident ELSE "unknown_user", "]">>)

\* One iteration of the for loop of _process_user_profile_macros_in_soup.
ProfileStep ==
    /\ pc = "profiles"
    /\ cursor <= Len(queue)
    /\ LET e == queue[cursor]
           user_ref == ProfileUserRef(html, repl, e)
       IN IF user_ref = 0
          THEN /\ repl' = ReplaceWith(repl, e, Malformed)
               /\ calls' = calls
          ELSE LET account_id == html[user_ref].account_id
                   userkey == html[user_ref].userkey
                   fn == ProfileLookup(client, account_id, userkey)
               IN IF fn # None
                  THEN \E reply \in Replies :
                         /\ calls' = Append(calls,
                                Call(fn, ProfileLookupArg(account_id, userkey, fn), e, reply))
                         /\ repl' = ReplaceWith(repl, e,
                                ProfileText(account_id, userkey, fn, reply))
                  ELSE /\ calls' = calls
                       /\ repl' = ReplaceWith(repl, e,
                              ProfileText(account_id, userkey, fn, None))
    /\ cursor' = cursor + 1
    /\ UNCHANGED <<service, instance, pc, args, queue, built, result, passes, reprocessed>>

\* Variant: the flag alone opens the gate.
InlineGate_FlagOnly(flag, c, pid) == flag

\* if preserve_inline_attachments and confluence_client and page_id
InlineGate(flag, c, pid) == flag /\ c # None /\ Truthy(pid)

\* The loop ends; process_html_content decides whether
\* _process_inline_attachments_in_soup runs.
ProfilesDone ==
    /\ pc = "profiles"
    /\ cursor > Len(queue)
    /\ IF InlineGate(preserve, client, page_id)
       THEN /\ pc' = "images"
            /\ queue' = FindAll(html, repl, 0, "ac:image", None)
            /\ passes' = Append(passes, "_process_ac_image_macros")
       ELSE /\ pc' = "serialize"
            /\ queue' = <<>>
            /\ passes' = passes
    /\ cursor' = 1
    /\ UNCHANGED <<service, instance, args, repl, calls, built, result, reprocessed>>

-----------------------------------------------------------------------------
(* Inline Attachment Rewriter *)

\* Variant: the last parameter named alt, title or caption wins.
RECURSIVE FirstAltText_LastMatch(_, _)
FirstAltText_LastMatch(t, params) ==
    IF params = <<>> THEN <<>>
    ELSE LET rest == FirstAltText_LastMatch(t, Tail(params))
         IN IF rest # <<>> THEN rest
            ELSE IF t[Head(params)].name \in {"alt", "title", "caption"}
                 THEN t[Head(params)].text
                 ELSE <<>>

\* The alt text _process_ac_image_macros takes from the parameters of e:
\* the text of the first one named alt, title or caption, else "".
RECURSIVE FirstAltText(_, _)
FirstAltText(t, params) ==
    IF params = <<>> THEN <<>>
    ELSE IF t[Head(params)].name \in {"alt", "title", "caption"}
         THEN GetText(t, Head(params))
         ELSE FirstAltText(t, Tail(params))

AltText(t, r, e) == FirstAltText(t, FindAll(t, r, e, "ac:parameter", None))

\* The <img> that replaces image macro e.
ImageTag(t, r, e, url, filename) ==
    LET alt_text == AltText(t, r, e)
    IN IF alt_text # <<>> THEN ImgTag(url, alt_text) ELSE ImgTag(url, filename)

\* Variant: a macro without reference is given a file name of its own.
FirstFilename_Default(t, r, e) ==
    LET attachment_ref == Find(t, r, e, "ri:attachment", None)
    IN IF attachment_ref = 0 THEN <<"a">> ELSE t[attachment_ref].filename

\* Variant: the file name is read off the last ri:attachment below e.
FirstFilename_Last(t, r, e) ==
    LET refs == FindAll(t, r, e, "ri:attachment", None)
    IN IF refs = <<>> THEN <<>> ELSE t[refs[Len(refs)]].filename

\* The file name a pass reads off the first ri:attachment below e; <<>>
\* when there is no reference or it has no file name (the pass continues).
FirstFilename(t, r, e) ==
    LET attachment_ref == Find(t, r, e, "ri:attachment", None)
    IN IF attachment_ref = 0 THEN <<>> ELSE t[attachment_ref].filename

\* Variant: the image pass writes the placeholder of the reference pass.
ImagePlaceholder_Generic == TextNode(<<"[Attachment]">>)

\* What each pass's except clause puts in place of the occurrence.
ImagePlaceholder == TextNode(<<"[Image attachment]">>)
AttachmentPlaceholder == TextNode(<<"[Attachment]">>)
LinkPlaceholder == TextNode(<<"[Attachment link]">>)

\* One iteration of the for loop of _process_ac_image_macros.  completes
\* is whether the statements of the try block run to their end or raise.
ImageStep ==
    /\ pc = "images"
    /\ cursor <= Len(queue)
    /\ LET e == queue[cursor]
           filename == FirstFilename(html, repl, e)
           url == ConstructAttachmentDownloadUrl(base_url, page_id, filename)
       IN IF filename = <<>>
          THEN UNCHANGED <<repl, built>>
          ELSE \E completes \in BOOLEAN :
                 IF completes
                 THEN /\ url_args' = <<base_url, page_id, filename>>
                      /\ download_url' = url
                      /\ repl' = ReplaceWith(repl, e,
                                     ImageTag(html, repl, e, url, filename))
                 ELSE /\ UNCHANGED built
                      /\ repl' = ReplaceWith(repl, e,
                                     ImagePlaceholder)
    /\ cursor' = cursor + 1
    /\ UNCHANGED <<service, instance, pc, args, queue, calls, result, passes, reprocessed>>

ImagesDone ==
    /\ pc = "images"
    /\ cursor > Len(queue)
    /\ pc' = "attachments"
    /\ queue' = FindAll(html, repl, 0, "ri:attachment", None)
    /\ cursor' = 1
    /\ passes' = Append(passes, "_process_ri_attachment_macros")
    /\ UNCHANGED <<service, instance, args, repl, calls, built, result, reprocessed>>

\* Variant: the test for the file name is missing.
IsBareReference_NoFilenameCheck(t, r, n) ==
    /\ FindParent(t, r, n, "ac:image") = 0
    /\ FindParent(t, r, n, "ac:link") = 0

\* Variant: the find_parent("ac:link") test is missing.
IsBareReference_NoLinkCheck(t, r, n) ==
    /\ t[n].filename # <<>>
    /\ FindParent(t, r, n, "ac:image") = 0

\* Whether _process_ri_attachment_macros rewrites reference n.
IsBareReference(t, r, n) ==
    /\ t[n].filename # <<>>
    /\ FindParent(t, r, n, "ac:image") = 0
    /\ FindParent(t, r, n, "ac:link") = 0

\* One iteration of the for loop of _process_ri_attachment_macros.
AttachmentStep ==
    /\ pc = "attachments"
    /\ cursor <= Len(queue)
    /\ LET n == queue[cursor]
           filename == html[n].filename
           url == ConstructAttachmentDownloadUrl(base_url, page_id, filename)
       IN IF ~IsBareReference(html, repl, n)
          THEN UNCHANGED <<repl, built>>
          ELSE \E completes \in BOOLEAN :
                 IF completes
                 THEN /\ url_args' = <<base_url, page_id, filename>>
                      /\ download_url' = url
                      /\ repl' = ReplaceWith(repl, n, ATag(url, filename))
                 ELSE /\ UNCHANGED built
                      /\ repl' = ReplaceWith(repl, n, AttachmentPlaceholder)
    /\ cursor' = cursor + 1
    /\ UNCHANGED <<service, instance, pc, args, queue, calls, result, passes, reprocessed>>

AttachmentsDone ==
    /\ pc = "attachments"
    /\ cursor > Len(queue)
    /\ pc' = "links"
    /\ queue' = FindAll(html, repl, 0, "ac:link", None)
    /\ cursor' = 1
    /\ passes' = Append(passes, "_process_ac_link_attachment_macros")
    /\ UNCHANGED <<service, instance, args, repl, calls, built, result, reprocessed>>

\* Variant: the file name is always the visible text.
LinkText_FilenameOnly(t, r, e, filename) == filename

\* The visible text of the <a> that replaces link macro e.
LinkText(t, r, e, filename) ==
    LET link_body == Find(t, r, e, "ac:link-body", None)
    IN IF link_body # 0 THEN GetText(t, link_body) ELSE filename

\* One iteration of the for loop of _process_ac_link_attachment_macros.
LinkStep ==
    /\ pc = "links"
    /\ cursor <= Len(queue)
    /\ LET e == queue[cursor]
           filename == FirstFilename(html, repl, e)
           url == ConstructAttachmentDownloadUrl(base_url, page_id, filename)
       IN IF filename = <<>>
          THEN UNCHANGED <<repl, built>>
          ELSE \E completes \in BOOLEAN :
                 IF completes
                 THEN /\ url_args' = <<base_url, page_id, filename>>
                      /\ download_url' = url
                      /\ repl' = ReplaceWith(repl, e,
                                     ATag(url, LinkText(html, repl, e, filename)))
                 ELSE /\ UNCHANGED built
                      /\ repl' = ReplaceWith(repl, e,
                                     LinkPlaceholder)
    /\ cursor' = cursor + 1
    /\ UNCHANGED <<service, instance, pc, args, queue, calls, result, passes, reprocessed>>

LinksDone ==
    /\ pc = "links"
    /\ cursor > Len(queue)
    /\ pc' = "serialize"
    /\ queue' = <<>>
    /\ cursor' = 1
    /\ UNCHANGED <<service, instance, args, repl, calls, built, result, passes, reprocessed>>

-----------------------------------------------------------------------------
(* Pipeline Orchestrator: exit *)

\* Variant: what was below a replaced node is written out as well.
Serialize_KeepDetached(t, r) ==
    [n \in 1..Len(t) |->
       IF Replaced(r, n) THEN r[n] ELSE [type |-> "element", node |-> t[n]]]

\* str(soup): position n holds the node that stands where input node n
\* stood, and nothing ("gone") if n lay below a node that was replaced.
Serialize(t, r) ==
    [n \in 1..Len(t) |->
       IF ~Under(t, [r EXCEPT ![n] = NoRepl], n, 0) THEN [type |-> "gone"]
       ELSE IF Replaced(r, n) THEN r[n]
       ELSE [type |-> "element", node |-> t[n]]]

\* markdownify(processed_html), a text transform outside this model.
Markdown(processed_html) == [markdown_of |-> processed_html]

\* processed_html = str(soup); processed_markdown = md(processed_html);
\* either both are returned, or the failure is logged and re-raised.
Return ==
    /\ pc = "serialize"
    /\ \E completes \in BOOLEAN :
         IF completes
         THEN /\ pc' = "done"
              /\ result' = [returned |-> TRUE, raised |-> None,
                            processed_html |-> Serialize(html, repl),
                            processed_markdown |-> Markdown(Serialize(html, repl))]
         ELSE /\ pc' = "raised"
              /\ result' = Raised("serialize")
    /\ UNCHANGED <<service, instance, args, repl, queue, cursor, calls, built, passes, reprocessed>>

Next ==
    \/ ConstructUrl
    \/ Process
    \/ MentionStep
    \/ MentionsDone
    \/ ProfileStep
    \/ ProfilesDone
    \/ ImageStep
    \/ ImagesDone
    \/ AttachmentStep
    \/ AttachmentsDone
    \/ LinkStep
    \/ LinksDone
    \/ Return

Spec == Init /\ [][Next]_vars

-----------------------------------------------------------------------------
(* A second call on the markup the first call returned, with the same      *)
(* client, page id and flag.                                               *)

Kept(out) == {n \in DOMAIN out : out[n].type # "gone"}
Rank(out, n) == Cardinality({k \in Kept(out) : k <= n})

\* The node BeautifulSoup builds for what stands at position n of the
\* markup: the element itself, a string, an <img> or an <a>.
ParsedNode(t, out, n) ==
    LET p == Rank(out, t[n].parent)
        x == out[n]
    IN CASE x.type = "element" -> [x.node EXCEPT !.parent = p]
         [] x.type = "text" -> [MkNode("#text", p) EXCEPT !.text = x.s]
         [] x.type = "img" ->
              [tag |-> "img", parent |-> p, account_id |-> None,
               userkey |-> None, filename |-> <<>>, name |-> None,
               text |-> <<>>, src |-> x.src, alt |-> x.alt]
         [] x.type = "a" ->
              [tag |-> "a", parent |-> p, account_id |-> None,
               userkey |-> None, filename |-> <<>>, name |-> None,
               text |-> x.string, href |-> x.href]

\* BeautifulSoup(processed_html, "html.parser"), for markup that str(soup)
\* made of document t: the nodes that are left, in document order.
Reparse(t, out) ==
    [i \in 1..Cardinality(Kept(out)) |->
       ParsedNode(t, out, CHOOSE n \in Kept(out) : Rank(out, n) = i)]

\* process_html_content(processed_html, ...) up to the first find_all.
ProcessAgain ==
    /\ pc = "done"
    /\ ~reprocessed
    /\ \E parsed \in BOOLEAN :
         IF parsed
         THEN LET doc == Reparse(html, result.processed_html)
              IN /\ pc' = "mentions"
                 /\ html' = doc
                 /\ repl' = [n \in 1..Len(doc) |-> NoRepl]
                 /\ queue' = FindAll(doc, [n \in 1..Len(doc) |-> NoRepl], 0,
                                     "ac:link", None)
                 /\ cursor' = 1
                 /\ passes' = <<>>
                 /\ result' = NoResult
         ELSE /\ pc' = "raised"
              /\ result' = Raised("parse")
              /\ UNCHANGED <<html, repl, queue, cursor, passes>>
    /\ reprocessed' = TRUE
    /\ UNCHANGED <<service, instance, client, page_id, flag_arg, preserve, calls, built>>

NextAgain == Next \/ ProcessAgain

SpecAgain == Init /\ [][NextAgain]_vars

-----------------------------------------------------------------------------
(* Vocabulary of the properties.  Shapes are read off the input document,  *)
(* that is html with no replacement made.                                  *)

Nodes == 1..Len(html)
NoRepls == [n \in Nodes |-> NoRepl]
Gone == [type |-> "gone"]

\* A document was parsed and is being, or has been, processed.
Started == pc \notin {"idle", "url"} /\ ~(pc = "raised" /\ result.raised = "parse")

\* The running pass has finished its iteration for node n.
Visited(n) == \E i \in 1..(cursor - 1) : i <= Len(queue) /\ queue[i] = n

MentionHandled(n) == Started /\ (pc = "mentions" => Visited(n))
ProfileHandled(n) == Started /\ pc # "mentions" /\ (pc = "profiles" => Visited(n))

InputBelow(d, n) == Under(html, NoRepls, d, n)
CallsFor(n) == {i \in DOMAIN calls : calls[i].node = n}
GotName(reply) == reply # Raise /\ Truthy(reply)

\* The user reference of link n: the first ri:user it wraps.
LinkUser(n) == Find(html, NoRepls, n, "ri:user", None)
IsMention(n) ==
    /\ html[n].tag = "ac:link"
    /\ LinkUser(n) # 0
    /\ Truthy(html[LinkUser(n)].account_id)
MentionId(n) == html[LinkUser(n)].account_id

\* In the returned markup only x stands for node n, and nothing of what n
\* wrapped (n itself is gone when a node around it was replaced).
OnlyRemains(n, x) ==
    /\ result.processed_html[n] \in {x, Gone}
    /\ \A d \in Nodes : InputBelow(d, n) => result.processed_html[d] = Gone

IsProfile(n) == html[n].tag = "ac:structured-macro" /\ html[n].name = "profile"
UserParam(n) == Find(html, NoRepls, n, "ac:parameter", "user")
ProfileUser(n) ==
    IF UserParam(n) = 0 THEN 0 ELSE Find(html, NoRepls, UserParam(n), "ri:user", None)
MalformedProfile(n) == IsProfile(n) /\ ProfileUser(n) = 0
WellFormedProfile(n) == IsProfile(n) /\ ProfileUser(n) # 0
ProfileAccountId(n) == html[ProfileUser(n)].account_id
ProfileUserKey(n) == html[ProfileUser(n)].userkey

-----------------------------------------------------------------------------
(* C1: a link macro whose user reference carries an account id is, when a  *)
(* resolver is supplied and get_user_details_by_accountid returns a        *)
(* non-empty display name D for that id, replaced by the text "@D", and    *)
(* nothing else of the macro is left in the returned markup.               *)
C1_MentionResolved ==
    \A n \in Nodes :
      (IsMention(n) /\ MentionHandled(n) /\ client # None) =>
        \E i \in CallsFor(n) :
          /\ calls[i].fn = "get_user_details_by_accountid"
          /\ calls[i].arg = MentionId(n)
          /\ GotName(calls[i].reply) =>
               /\ repl[n] = TextNode(<<"@", calls[i].reply>>)
               /\ pc = "done" => OnlyRemains(n, TextNode(<<"@", calls[i].reply>>))

C1_Witness ==
    /\ pc = "done"
    /\ \E n \in Nodes :
         /\ IsMention(n)
         /\ \E d \in Nodes : InputBelow(d, n) /\ html[d].tag = "ac:link-body"
         /\ \E i \in CallsFor(n) : calls[i].reply = "Alice"
         /\ result.processed_html[n] = TextNode(<<"@", "Alice">>)

(* C2: a mention with account id A is replaced by exactly "@user_A" when   *)
(* no resolver is supplied, when its call raises, and when the record it   *)
(* returns has no or an empty display name; the failure does not leave     *)
(* process_html_content, which goes on to the next link.                   *)
C2_MentionFallback ==
    /\ \A n \in Nodes :
         (IsMention(n) /\ MentionHandled(n)) =>
           /\ client = None =>
                /\ CallsFor(n) = {}
                /\ repl[n] = TextNode(<<"@user_", MentionId(n)>>)
           /\ \A i \in CallsFor(n) :
                ~GotName(calls[i].reply) =>
                  /\ repl[n] = TextNode(<<"@user_", MentionId(n)>>)
                  /\ pc = "done" =>
                       OnlyRemains(n, TextNode(<<"@user_", MentionId(n)>>))
    /\ pc = "raised" => result.raised \in {"parse", "serialize"}

C2_Witness ==
    /\ pc = "done"
    /\ \E n, m \in Nodes :
         /\ IsMention(n) /\ IsMention(m)
         /\ \E i \in CallsFor(n) : calls[i].reply = Raise
         /\ \E i \in CallsFor(m) : calls[i].reply = ""
         /\ n < m
         /\ result.processed_html[n] = TextNode(<<"@user_", "a1">>)
         /\ result.processed_html[m] = TextNode(<<"@user_", "a1">>)

(* C3: a profile macro with no user parameter, or whose user parameter     *)
(* wraps no user reference, is replaced by "[User Profile Macro            *)
(* (Malformed)]" with or without a resolver, and no resolver call is made  *)
(* for it.                                                                 *)
C3_MalformedProfile ==
    \A n \in Nodes :
      (MalformedProfile(n) /\ ProfileHandled(n)) =>
        /\ repl[n] = TextNode(<<"[User Profile Macro (Malformed)]">>)
        /\ CallsFor(n) = {}
        /\ pc = "done" =>
             OnlyRemains(n, TextNode(<<"[User Profile Macro (Malformed)]">>))

C3_Witness ==
    /\ pc = "done"
    /\ client # None
    /\ \E n \in Nodes :
         /\ MalformedProfile(n)
         /\ UserParam(n) # 0
         /\ result.processed_html[n] = TextNode(<<"[User Profile Macro (Malformed)]">>)

\* The identifier of the fallback text: account id, else user key, else
\* the unknown-user literal.
FallbackIdentifier(n) ==
    IF Truthy(ProfileAccountId(n)) THEN ProfileAccountId(n)
    ELSE IF Truthy(ProfileUserKey(n)) THEN ProfileUserKey(n)
    ELSE "unknown_user"

(* C4: a well-formed profile macro for which no display name is obtained   *)
(* (no resolver, the call raises, or the record has no display name) is    *)
(* replaced by "[User Profile: <identifier>]"; the exception does not      *)
(* leave process_html_content and the later profile macros are processed.  *)
C4_ProfileFallback ==
    /\ \A n \in Nodes :
         (/\ WellFormedProfile(n)
          /\ ProfileHandled(n)
          /\ \A i \in CallsFor(n) : ~GotName(calls[i].reply)) =>
             /\ repl[n] = TextNode(<<"[User Profile: ", FallbackIdentifier(n), "]">>)
             /\ pc = "done" =>
                  OnlyRemains(n, TextNode(<<"[User Profile: ", FallbackIdentifier(n), "]">>))
    /\ pc = "raised" => result.raised \in {"parse", "serialize"}
    /\ (Started /\ pc \notin {"mentions", "profiles"}) =>
         \A n \in Nodes : IsProfile(n) => Replaced(repl, n)

C4_Witness ==
    /\ pc = "done"
    /\ \E n, m \in Nodes :
         /\ WellFormedProfile(n) /\ IsProfile(m) /\ n < m
         /\ ProfileUserKey(n) = "k1"
         /\ \E i \in CallsFor(n) : calls[i].reply = Raise
         /\ result.processed_html[n] = TextNode(<<"[User Profile: ", "a1", "]">>)
         /\ Replaced(repl, m)

(* C5: with a resolver, a well-formed profile macro with an account id     *)
(* causes one get_user_details_by_accountid call and never a               *)
(* get_user_details_by_username call, whatever the first call does; the    *)
(* by-username call is made only when the account id is absent and a user  *)
(* key is present; a non-empty display name D gives "@D".                  *)
C5_ProfileLookup ==
    \A n \in Nodes :
      (WellFormedProfile(n) /\ ProfileHandled(n) /\ client # None) =>
        /\ Cardinality(CallsFor(n)) <= 1
        /\ Truthy(ProfileAccountId(n)) =>
             \E i \in CallsFor(n) :
               /\ calls[i].fn = "get_user_details_by_accountid"
               /\ calls[i].arg = ProfileAccountId(n)
        /\ \A i \in CallsFor(n) :
             /\ calls[i].fn = "get_user_details_by_username" =>
                  /\ ~Truthy(ProfileAccountId(n))
                  /\ Truthy(ProfileUserKey(n))
                  /\ calls[i].arg = ProfileUserKey(n)
             /\ GotName(calls[i].reply) =>
                  /\ repl[n] = TextNode(<<"@", calls[i].reply>>)
                  /\ pc = "done" => OnlyRemains(n, TextNode(<<"@", calls[i].reply>>))
        /\ (~Truthy(ProfileAccountId(n)) /\ Truthy(ProfileUserKey(n))) =>
             \E i \in CallsFor(n) : calls[i].fn = "get_user_details_by_username"

C5_Witness ==
    /\ pc = "done"
    /\ \E n \in Nodes :
         /\ WellFormedProfile(n)
         /\ ProfileAccountId(n) = "a1" /\ ProfileUserKey(n) = "k1"
         /\ \E i \in CallsFor(n) :
              calls[i].fn = "get_user_details_by_accountid" /\ calls[i].reply = Raise
         /\ Cardinality(CallsFor(n)) = 1

-----------------------------------------------------------------------------
(* Vocabulary of the attachment properties.                                *)

GateHolds == preserve /\ client # None /\ Truthy(page_id)
AllPasses == <<"_process_ac_image_macros", "_process_ri_attachment_macros",
               "_process_ac_link_attachment_macros">>
InPasses == pc \in {"images", "attachments", "links"}
PastGate == Started /\ pc \in {"serialize", "done", "raised"}

IsAttachment(n) == html[n].tag = "ri:attachment"
IsImage(n) == html[n].tag = "ac:image"
FirstAttachment(n) == Find(html, NoRepls, n, "ri:attachment", None)
LinkWrapsAttachment(n) == html[n].tag = "ac:link" /\ FirstAttachment(n) # 0
AttachmentMarkup(n) == IsImage(n) \/ IsAttachment(n) \/ LinkWrapsAttachment(n)
Filenames == {html[d].filename : d \in {k \in Nodes : IsAttachment(k)}}

\* n is, lies inside, or wraps a node the mention or the profile pass
\* rewrites.
InRewritten(n) ==
    \E m \in Nodes :
      /\ m = n \/ InputBelow(n, m) \/ InputBelow(m, n)
      /\ IsMention(m) \/ IsProfile(m)

\* n and everything below it is in the returned markup as it was parsed.
Unaltered(n) ==
    \A d \in Nodes :
      (d = n \/ InputBelow(d, n)) =>
        result.processed_html[d] = [type |-> "element", node |-> html[d]]

(* C6: the three attachment passes run exactly when the inline-attachment  *)
(* flag is true and a client and a page id are supplied; when they do not  *)
(* run, every image macro, attachment reference and link macro wrapping an *)
(* attachment that is not, is not inside, and does not wrap a node         *)
(* rewritten by the mention or profile pass is in the returned markup      *)
(* unaltered.                                                              *)
C6_GateAndFrame ==
    /\ InPasses => GateHolds /\ passes = SubSeq(AllPasses, 1, Len(passes))
    /\ PastGate => passes = (IF GateHolds THEN AllPasses ELSE <<>>)
    /\ (pc = "done" /\ ~GateHolds) =>
         \A n \in Nodes :
           (AttachmentMarkup(n) /\ ~InRewritten(n)) => Unaltered(n)

C6_Witness ==
    /\ pc = "done"
    /\ ~preserve /\ client # None /\ Truthy(page_id)
    /\ \E n, m \in Nodes :
         /\ IsImage(n) /\ FirstAttachment(n) # 0
         /\ LinkWrapsAttachment(m) /\ ~InRewritten(m)
         /\ html[FirstAttachment(m)].filename # <<>>
         /\ Unaltered(n) /\ Unaltered(m)

\* C6 as stated: with the gate closed every image macro, attachment
\* reference and link macro wrapping an attachment is unaltered.
C6_AsStated ==
    /\ InPasses => GateHolds /\ passes = SubSeq(AllPasses, 1, Len(passes))
    /\ PastGate => passes = (IF GateHolds THEN AllPasses ELSE <<>>)
    /\ (pc = "done" /\ ~GateHolds) =>
         \A n \in Nodes : AttachmentMarkup(n) => Unaltered(n)

\* The nodes at the top of the document the three passes are written for.
TopImage(n) ==
    /\ IsImage(n) /\ html[n].parent = 0
    /\ FirstAttachment(n) # 0 /\ html[FirstAttachment(n)].filename # <<>>
TopAttachment(n) ==
    IsAttachment(n) /\ html[n].parent = 0 /\ html[n].filename # <<>>
TopAttachmentLink(n) ==
    /\ LinkWrapsAttachment(n) /\ html[n].parent = 0 /\ ~IsMention(n)
    /\ html[FirstAttachment(n)].parent = n
    /\ html[FirstAttachment(n)].filename # <<>>

(* C7: a ConfluencePreprocessor constructed with                           *)
(* preserve_inline_attachments=True whose process_html_content is called   *)
(* with a page id and confluence_client=None returns markup in which image *)
(* macros are <img> tags and bare and link-wrapped attachment references   *)
(* are <a> tags.                                                           *)
C7_DemoConverts ==
    (/\ pc = "done"
     /\ init_args.preserve_inline_attachments
     /\ flag_arg = None
     /\ client = None
     /\ Truthy(page_id)) =>
      \A n \in Nodes :
        /\ TopImage(n) => result.processed_html[n].type = "img"
        /\ TopAttachment(n) => result.processed_html[n].type = "a"
        /\ TopAttachmentLink(n) => result.processed_html[n].type = "a"

\* The URL of the standalone proxy for file f of the page.
ProxyUrl(f) ==
    <<"http://",
      IF proxy_host = None THEN "localhost" ELSE proxy_host,
      ":",
      IF proxy_port = None THEN "8002" ELSE proxy_port,
      IF proxy_base_path = None THEN "/proxy" ELSE proxy_base_path,
      "/confluence/attachment/", page_id, "/">> \o f

(* C8: every image src and attachment href the passes write is the proxy   *)
(* URL http://<proxy_host>:<proxy_port><proxy_base_path>/confluence/       *)
(* attachment/<page_id>/<filename>, with localhost, 8002 and /proxy when   *)
(* the instance was constructed without them.                              *)
C8_ProxyUrls ==
    \A n \in DOMAIN repl :
      /\ repl[n].type = "img" => repl[n].src \in {ProxyUrl(f) : f \in Filenames}
      /\ repl[n].type = "a" => repl[n].href \in {ProxyUrl(f) : f \in Filenames}

\* The percent-encoding of a file name: a space is %20, '#' is %23, '%' is
\* %25; '/', '.', '-', '_', '~' and letters stand for themselves.
RECURSIVE PercentEncoded(_)
PercentEncoded(f) ==
    IF f = <<>> THEN <<>>
    ELSE (IF Head(f) = " " THEN <<"%", "2", "0">>
          ELSE IF Head(f) = "#" THEN <<"%", "2", "3">>
          ELSE IF Head(f) = "%" THEN <<"%", "2", "5">>
          ELSE <<Head(f)>>) \o PercentEncoded(Tail(f))

DownloadURL(base, pid, f) ==
    base \o <<"/download/attachments/", pid, "/">> \o PercentEncoded(f)

ImageHandled(n) ==
    /\ IsImage(n)
    /\ Started /\ passes # <<>>
    /\ pc = "images" => Visited(n)
    /\ ~\E m \in Nodes : InputBelow(n, m) /\ IsMention(m)
ImageFilename(n) ==
    IF FirstAttachment(n) = 0 THEN <<>> ELSE html[FirstAttachment(n)].filename
AltParams(n) ==
    {d \in Nodes : /\ InputBelow(d, n)
                   /\ html[d].tag = "ac:parameter"
                   /\ html[d].name \in {"alt", "title", "caption"}}
FirstAltParam(n) == CHOOSE d \in AltParams(n) : \A e \in AltParams(n) : d <= e
ImageFailed == TextNode(<<"[Image attachment]">>)

(* C10: when the passes run, an image macro whose nested attachment        *)
(* reference has file name F is replaced by one image node with            *)
(* src = DownloadURL(F) and alt = the text of the first parameter, in      *)
(* document order, named alt, title or caption; when the macro has no such *)
(* parameter, or that parameter's text is empty, alt = F.  (An iteration   *)
(* that raises leaves the placeholder "[Image attachment]" instead.)       *)
C10_ImageAlt ==
    \A n \in Nodes :
      (ImageHandled(n) /\ ImageFilename(n) # <<>>) =>
        LET F == ImageFilename(n)
            alt == IF AltParams(n) = {} THEN F
                   ELSE IF html[FirstAltParam(n)].text = <<>> THEN F
                   ELSE html[FirstAltParam(n)].text
        IN repl[n] \in {ImgTag(DownloadURL(base_url, page_id, F), alt), ImageFailed}

C10_Witness ==
    /\ pc = "done"
    /\ \E n \in Nodes :
         /\ IsImage(n)
         /\ AltParams(n) # {}
         /\ html[FirstAltParam(n)].text = <<>>
         /\ ImageFilename(n) # <<>>
         /\ result.processed_html[n].type = "img"
         /\ result.processed_html[n].alt = ImageFilename(n)

\* C10 as stated: alt is the text of the first such parameter whenever the
\* macro has one.
C10_AsStated ==
    \A n \in Nodes :
      (ImageHandled(n) /\ ImageFilename(n) # <<>>) =>
        LET F == ImageFilename(n)
            alt == IF AltParams(n) = {} THEN F
                   ELSE html[FirstAltParam(n)].text
        IN repl[n] \in {ImgTag(DownloadURL(base_url, page_id, F), alt), ImageFailed}

-----------------------------------------------------------------------------
(* Vocabulary of the pass-by-pass properties: the tree as a pass finds it  *)
(* is html under the replacements made so far.                             *)

Live(n) == Under(html, repl, n, 0)
InQueue(n) == \E i \in DOMAIN queue : queue[i] = n
OnlyChanges(e) == \A n \in Nodes : n # e => repl'[n] = repl[n]
InputLinkBody(n) == Find(html, NoRepls, n, "ac:link-body", None)
NamedAttachmentsBelow(n) ==
    {d \in Nodes : InputBelow(d, n) /\ IsAttachment(d) /\ html[d].filename # <<>>}

(* C11: when the attachment passes run, a link macro that is in the tree   *)
(* when the link pass starts, and whose first nested attachment reference  *)
(* then has file name F, is replaced as a whole by one <a> whose href is   *)
(* DownloadURL(F) and whose text is the text of the macro's link-body if   *)
(* it has one, else F.  (An iteration that raises leaves the placeholder   *)
(* "[Attachment link]" instead.)                                           *)
C11_LinkRewrite ==
    [][/\ (pc = "attachments" /\ pc' = "links") =>
            \A n \in Nodes : (html[n].tag = "ac:link" /\ Live(n)) => InQueue(n)'
       /\ (pc = "links" /\ cursor <= Len(queue)) =>
            LET e == queue[cursor]
                a == Find(html, repl, e, "ri:attachment", None)
                b == Find(html, repl, e, "ac:link-body", None)
            IN (a # 0 /\ html[a].filename # <<>>) =>
                 LET F == html[a].filename
                     text == IF b # 0 THEN html[b].text ELSE F
                 IN /\ repl'[e] \in {ATag(DownloadURL(base_url, page_id, F), text),
                                     TextNode(<<"[Attachment link]">>)}
                    /\ OnlyChanges(e)
                    /\ cursor' = cursor + 1]_vars

C11_Witness ==
    /\ pc = "done"
    /\ \E n \in Nodes :
         /\ html[n].tag = "ac:link" /\ ~IsMention(n)
         /\ InputLinkBody(n) # 0
         /\ result.processed_html[n] =
              ATag(<<"https://h", "/download/attachments/", "12345", "/",
                     "a", "-", "a", "_", "a", "%", "2", "0", "a", "/", "a", ".", "a">>,
                   <<"Doc">>)

\* C11 as stated: every link macro of the input that contains an attachment
\* reference with a file name is, once the passes have run, an <a> for one
\* such file name (or the placeholder of a failed iteration).
C11_AsStated ==
    (PastGate /\ passes = AllPasses) =>
      \A n \in Nodes :
        (html[n].tag = "ac:link" /\ NamedAttachmentsBelow(n) # {}) =>
          \/ repl[n] = TextNode(<<"[Attachment link]">>)
          \/ \E d \in NamedAttachmentsBelow(n) :
               repl[n] = ATag(DownloadURL(base_url, page_id, html[d].filename),
                              IF InputLinkBody(n) # 0
                              THEN html[InputLinkBody(n)].text
                              ELSE html[d].filename)

HasAncestor(n, tag) == \E m \in Nodes : InputBelow(n, m) /\ html[m].tag = tag
Nested(n) == HasAncestor(n, "ac:image") \/ HasAncestor(n, "ac:link")

(* C12: when the attachment passes run, an attachment reference with file  *)
(* name F that has no image-macro and no link-macro ancestor is replaced   *)
(* by an <a> with href DownloadURL(F) and text F (or, when its iteration   *)
(* raises, by "[Attachment]"); a reference that has such an ancestor is    *)
(* never replaced by the bare-reference pass.                              *)
C12_BareReference ==
    /\ [](\A n \in DOMAIN repl : (IsAttachment(n) /\ Nested(n)) => repl[n] = NoRepl)
    /\ [][/\ (pc = "images" /\ pc' = "attachments") =>
               \A n \in Nodes : (IsAttachment(n) /\ Live(n)) => InQueue(n)'
          /\ (pc = "attachments" /\ cursor <= Len(queue)) =>
               LET n == queue[cursor]
                   F == html[n].filename
               IN /\ cursor' = cursor + 1
                  /\ (F # <<>> /\ ~Nested(n)) =>
                       /\ repl'[n] \in {ATag(DownloadURL(base_url, page_id, F), F),
                                        TextNode(<<"[Attachment]">>)}
                       /\ OnlyChanges(n)
                  /\ Nested(n) => repl' = repl]_vars

C12_Witness ==
    /\ pc = "done"
    /\ \E n, m \in Nodes :
         /\ IsAttachment(n) /\ ~Nested(n)
         /\ result.processed_html[n] =
              ATag(DownloadURL(base_url, page_id, html[n].filename), html[n].filename)
         /\ IsAttachment(m) /\ Nested(m) /\ html[m].filename # <<>>
         /\ result.processed_html[m] = [type |-> "element", node |-> html[m]]

\* Reference d lies in an image macro the image pass has replaced.
InMatchedImage(d) ==
    \E i \in Nodes : IsImage(i) /\ InputBelow(d, i) /\ Replaced(repl, i)

(* C13: an attachment reference nested in an image macro that the image    *)
(* pass matched gives one node only, the one that replaces the image: the  *)
(* reference itself is never replaced, it is gone from the returned        *)
(* markup, and no <a> of the link pass is made from it.                    *)
C13_RewrittenOnce ==
    /\ \A i \in DOMAIN repl :
         (IsImage(i) /\ Replaced(repl, i)) =>
           /\ repl[i].type = "img" \/ repl[i] = TextNode(<<"[Image attachment]">>)
           /\ \A d \in Nodes :
                (IsAttachment(d) /\ InputBelow(d, i)) =>
                  /\ repl[d] = NoRepl
                  /\ pc = "done" =>
                       /\ result.processed_html[d] = Gone
                       /\ result.processed_html[i] \in {repl[i], Gone}
    /\ \A m \in DOMAIN repl :
         (/\ html[m].tag = "ac:link"
          /\ repl[m].type = "a" \/ repl[m] = TextNode(<<"[Attachment link]">>)) =>
           \E d \in NamedAttachmentsBelow(m) : ~InMatchedImage(d)

C13_Witness ==
    /\ pc = "done"
    /\ \E m, i, d \in Nodes :
         /\ html[m].tag = "ac:link" /\ IsImage(i) /\ IsAttachment(d)
         /\ html[i].parent = m /\ html[d].parent = i
         /\ result.processed_html[m] = [type |-> "element", node |-> html[m]]
         /\ result.processed_html[i].type = "img"
         /\ result.processed_html[d] = Gone

FirstCallDone == pc = "done" /\ ~reprocessed
SecondCallDone == pc = "done" /\ reprocessed
Remains(n) == result.processed_html[n].type = "element"
ReturnedAsGiven ==
    \A n \in Nodes : result.processed_html[n] = [type |-> "element", node |-> html[n]]

\* The first attachment reference left below n in the returned markup has
\* no file name, or none is left.
NoNamedFirstReference(n) ==
    LET S == {d \in Nodes : InputBelow(d, n) /\ IsAttachment(d) /\ Remains(d)}
    IN \A d \in S : (\A x \in S : d <= x) => html[d].filename = <<>>

C15_PlainLinkKept ==
    \A n \in DOMAIN repl :
      html[n].tag = "a" =>
        /\ repl[n] = NoRepl
        /\ ~InQueue(n)
        /\ pc = "done" =>
             result.processed_html[n] = [type |-> "element", node |-> html[n]]

C15_Witness ==
    /\ pc = "done" /\ ~reprocessed
    /\ GateHolds
    /\ \E n, m \in Nodes :
         /\ html[n].tag = "a"
         /\ result.processed_html[n] = [type |-> "element", node |-> html[n]]
         /\ html[n].text = <<"Example">>
         /\ result.processed_html[m].type = "a"

(* C16: a call ends in one of two ways.  It returns the pair               *)
(* (processed_html, processed_markdown) made after the mention pass, the   *)
(* profile pass and, when the gate is open, the three attachment passes    *)
(* have finished; or it raises at the parse or at the serialize/Markdown   *)
(* step and returns nothing, no partial pair.  Until then it can go on.    *)
C16_Outcomes ==
    /\ result.returned <=> pc = "done"
    /\ result.raised # None <=> pc = "raised"
    /\ pc = "done" =>
         /\ DOMAIN result =
              {"returned", "raised", "processed_html", "processed_markdown"}
         /\ DOMAIN result.processed_html = Nodes
         /\ result.processed_markdown.markdown_of = result.processed_html
         /\ passes = (IF GateHolds THEN AllPasses ELSE <<>>)
         /\ \A n \in Nodes : (IsMention(n) \/ IsProfile(n)) => Replaced(repl, n)
    /\ pc = "raised" =>
         /\ DOMAIN result = {"returned", "raised"}
         /\ result.raised \in {"parse", "serialize"}
         /\ result.raised = "parse" => html = <<>>
         /\ result.raised = "serialize" =>
              passes = (IF GateHolds THEN AllPasses ELSE <<>>)
    /\ pc \in {"done", "raised", "url"} \/ ENABLED Next

C16_Witness ==
    /\ pc = "raised"
    /\ result.raised = "serialize"
    /\ passes = AllPasses
    /\ \E n \in Nodes : repl[n].type = "img"

InLoop ==
    /\ pc \in {"mentions", "profiles", "images", "attachments", "links"}
    /\ cursor <= Len(queue)

(* C17: a failure while one macro occurrence is rewritten stays with that  *)
(* occurrence.  The occurrence gets the placeholder of its kind            *)
(* ("[Image attachment]", "[Attachment]", "[Attachment link]", or the      *)
(* mention or profile fallback when the client raises), the loop goes on   *)
(* to its next occurrence, the later passes run, and the call does not     *)
(* raise for it.                                                           *)
C17_FailureIsolated ==
    /\ [](/\ pc = "raised" => result.raised \in {"parse", "serialize"}
          /\ \A n \in DOMAIN repl :
               /\ repl[n] = TextNode(<<"[Image attachment]">>) => IsImage(n)
               /\ repl[n] = TextNode(<<"[Attachment]">>) => IsAttachment(n)
               /\ repl[n] = TextNode(<<"[Attachment link]">>) =>
                    html[n].tag = "ac:link"
          /\ \A i \in DOMAIN calls :
               calls[i].reply = Raise =>
                 LET n == calls[i].node
                 IN repl[n] =
                      (IF IsProfile(n)
                       THEN TextNode(<<"[User Profile: ", FallbackIdentifier(n), "]">>)
                       ELSE TextNode(<<"@user_", MentionId(n)>>))
          /\ (PastGate /\ GateHolds) =>
               \A n \in Nodes :
                 /\ TopImage(n) =>
                      \/ repl[n].type = "img"
                      \/ repl[n] = TextNode(<<"[Image attachment]">>)
                 /\ TopAttachment(n) =>
                      \/ repl[n].type = "a"
                      \/ repl[n] = TextNode(<<"[Attachment]">>)
                 /\ TopAttachmentLink(n) =>
                      \/ repl[n].type = "a"
                      \/ repl[n] = TextNode(<<"[Attachment link]">>))
    /\ [][InLoop => (cursor' = cursor + 1 /\ pc' = pc /\ queue' = queue)]_vars

C17_Witness ==
    /\ pc = "done"
    /\ \E n, m \in Nodes :
         /\ n < m
         /\ result.processed_html[n] = TextNode(<<"[Image attachment]">>)
         /\ \/ IsImage(m) /\ result.processed_html[m].type = "img"
            \/ IsAttachment(m) /\ result.processed_html[m].type = "a"

ImagePassOver == Len(passes) >= 2
LiveFirstReference(i) == Find(html, repl, i, "ri:attachment", None)
LiveImagesAbove(d) == {i \in Nodes : IsImage(i) /\ InputBelow(d, i)}

(* C18: once the image pass is over, no attachment reference remains in    *)
(* the live tree nested inside an image macro whose first attachment       *)
(* reference has a file name: every image macro above a live reference has *)
(* a first reference without file name, which the pass skips, however many *)
(* references the macro wraps.                                             *)
C18_ImagesConsumed ==
    ImagePassOver =>
      \A d \in Nodes :
        (IsAttachment(d) /\ Live(d)) =>
          \A i \in LiveImagesAbove(d) :
            /\ LiveFirstReference(i) # 0
            /\ html[LiveFirstReference(i)].filename = <<>>

C18_Witness ==
    /\ pc = "done" /\ passes = AllPasses
    /\ \E i, d, e \in Nodes :
         /\ IsImage(i) /\ IsAttachment(d) /\ IsAttachment(e)
         /\ html[d].parent = i /\ html[e].parent = i /\ d < e
         /\ html[d].filename = <<>> /\ html[e].filename # <<>>
         /\ Remains(i) /\ Remains(d) /\ Remains(e)

\* C18 as stated: once the image pass is over no live attachment reference
\* lies inside an image macro.
C18_AsStated ==
    ImagePassOver =>
      \A d \in Nodes :
        (IsAttachment(d) /\ Live(d)) => LiveImagesAbove(d) = {}

Current == queue[cursor]
Skipped == repl' = repl /\ cursor' = cursor + 1 /\ pc' = pc /\ queue' = queue
NoReference(e) == Find(html, repl, e, "ri:attachment", None) = 0

(* C19: of the macros whose required child is missing, only the profile    *)
(* macro without user parameter (or without user reference in it) is       *)
(* replaced by the placeholder of its kind, "[User Profile Macro           *)
(* (Malformed)]"; an image or link macro without attachment reference and  *)
(* an attachment reference without file name are passed over, nothing is   *)
(* written for them; in each case the loop goes on to its next node.       *)
C19_MissingChild ==
    [][/\ (pc = "profiles" /\ InLoop /\ MalformedProfile(Current)) =>
            /\ repl'[Current] = TextNode(<<"[User Profile Macro (Malformed)]">>)
            /\ OnlyChanges(Current)
            /\ cursor' = cursor + 1 /\ pc' = pc /\ queue' = queue
       /\ (pc \in {"images", "links"} /\ InLoop /\ NoReference(Current)) => Skipped
       /\ (pc = "attachments" /\ InLoop /\ html[Current].filename = <<>>) => Skipped
      ]_vars

C19_Witness ==
    /\ pc = "done" /\ passes = AllPasses
    /\ \E n, i, d \in Nodes :
         /\ n < i /\ i < d
         /\ MalformedProfile(n) /\ IsImage(i) /\ IsAttachment(d)
         /\ FirstAttachment(i) = 0
         /\ result.processed_html[n] = TextNode(<<"[User Profile Macro (Malformed)]">>)
         /\ Remains(i)
         /\ result.processed_html[d].type = "a"

\* C19 as stated: each of the four is replaced by the placeholder of its
\* kind.
C19_AsStated ==
    (pc = "done" /\ passes = AllPasses) =>
      \A n \in Nodes :
        html[n].parent = 0 =>
          /\ MalformedProfile(n) =>
               repl[n] = TextNode(<<"[User Profile Macro (Malformed)]">>)
          /\ (IsImage(n) /\ FirstAttachment(n) = 0) =>
               repl[n] = TextNode(<<"[Image attachment]">>)
          /\ (html[n].tag = "ac:link" /\ ~IsMention(n) /\ FirstAttachment(n) = 0) =>
               repl[n] = TextNode(<<"[Attachment link]">>)
          /\ (IsAttachment(n) /\ html[n].filename = <<>>) =>
               repl[n] = TextNode(<<"[Attachment]">>)

Unnamed(d) == IsAttachment(d) /\ html[d].filename = <<>>
AsParsed(n) == result.processed_html[n] = [type |-> "element", node |-> html[n]]
\* Macro n, at the top of the document and clear of the mention and profile
\* passes, has a first attachment reference without file name.
WrapsUnnamed(n) ==
    /\ html[n].tag \in {"ac:image", "ac:link"}
    /\ html[n].parent = 0 /\ ~InRewritten(n)
    /\ FirstAttachment(n) # 0 /\ Unnamed(FirstAttachment(n))

WrittenUrls ==
    {repl[n].src : n \in {k \in DOMAIN repl : repl[k].type = "img"}}
    \cup {repl[n].href : n \in {k \in DOMAIN repl : repl[k].type = "a"}}
StartsWith(s, prefix) ==
    Len(s) >= Len(prefix) /\ SubSeq(s, 1, Len(prefix)) = prefix
\* s up to its last chunk that is not "/".
WithoutTrailingSlashes(s) ==
    LET k == CHOOSE i \in 0..Len(s) :
               /\ i = 0 \/ s[i] # "/"
               /\ \A j \in (i + 1)..Len(s) : s[j] = "/"
    IN SubSeq(s, 1, k)
WithoutOneTrailingSlash(s) ==
    IF s # <<>> /\ s[Len(s)] = "/" THEN SubSeq(s, 1, Len(s) - 1) ELSE s

(* C21: the base of every download URL the passes write is the             *)
(* constructor's base with all its trailing slashes removed and nothing    *)
(* else changed: of a base ending in two slashes none is left, the URL     *)
(* goes on with "/download/attachments/" right after the last other        *)
(* character.                                                              *)
C21_BaseStripped ==
    /\ base_url = WithoutTrailingSlashes(init_args.base_url)
    /\ \A u \in WrittenUrls :
         StartsWith(u, WithoutTrailingSlashes(init_args.base_url)
                       \o <<"/download/attachments/">>)

C21_Witness ==
    /\ pc = "done"
    /\ init_args.base_url = <<"https://h", "/", "/">>
    /\ \E u \in WrittenUrls :
         StartsWith(u, <<"https://h", "/download/attachments/", "12345", "/">>)

\* C21 as stated: one trailing slash is removed, a second one stays.
C21_AsStated ==
    /\ base_url = WithoutOneTrailingSlash(init_args.base_url)
    /\ \A u \in WrittenUrls :
         StartsWith(u, WithoutOneTrailingSlash(init_args.base_url)
                       \o <<"/download/attachments/">>)

\* Profile macro n names a user the client can be asked about.
ResolvableProfile(n) ==
    /\ WellFormedProfile(n)
    /\ Truthy(ProfileAccountId(n)) \/ Truthy(ProfileUserKey(n))
NumberOfCalls(n) == Cardinality(CallsFor(n))

(* C22: within one call of process_html_content with a client, the client  *)
(* is called once for each mention link and once for each well-formed      *)
(* profile macro that names a user, in that node's own iteration, and      *)
(* never again for the same node, whatever the call returned or raised;    *)
(* two macros with the same account id give two calls; a malformed profile *)
(* macro, a link without account id and any other node give none, and      *)
(* without a client no call is made at all.                                *)
C22_OneCallEach ==
    /\ client = None => calls = <<>>
    /\ \A i \in DOMAIN calls : calls[i].node \in Nodes
    /\ \A n \in Nodes :
         /\ NumberOfCalls(n) <= 1
         /\ NumberOfCalls(n) = 1 => IsMention(n) \/ ResolvableProfile(n)
         /\ (client # None /\ IsMention(n)) =>
              NumberOfCalls(n) = (IF MentionHandled(n) THEN 1 ELSE 0)
         /\ (client # None /\ ResolvableProfile(n)) =>
              NumberOfCalls(n) = (IF ProfileHandled(n) THEN 1 ELSE 0)

C22_Witness ==
    /\ pc = "done"
    /\ Len(calls) = 2
    /\ calls[1].reply = Raise
    /\ calls[1].arg = calls[2].arg
    /\ calls[1].node # calls[2].node
    /\ IsMention(calls[1].node) /\ IsMention(calls[2].node)
    /\ LinkUser(calls[1].node) # LinkUser(calls[2].node)

-----------------------------------------------------------------------------
(* The passes as functions of the tree.  Each pass is its loop applied to  *)
(* the find_all list taken when it starts; a run is the passes of an order *)
(* applied one after the other.  The client's replies and the iterations   *)
(* that raise are those of the call that was made, node by node.           *)

ReplyOf(n) ==
    IF CallsFor(n) = {} THEN None ELSE calls[CHOOSE i \in CallsFor(n) : TRUE].reply
RaisedAt(n) ==
    repl[n] \in {ImagePlaceholder, AttachmentPlaceholder, LinkPlaceholder}

\* The body of the for loop of pass `pass` for element e, on the tree as
\* the replacements r have left it.
StepOf(pass, r, e) ==
    CASE pass = "mentions" ->
           LET account_id == MentionAccountId(html, r, e)
           IN IF account_id # None
              THEN ReplaceWith(r, e, UserMentionText(client, account_id, ReplyOf(e)))
              ELSE r
      [] pass = "profiles" ->
           LET user_ref == ProfileUserRef(html, r, e)
           IN IF user_ref = 0 THEN ReplaceWith(r, e, Malformed)
              ELSE LET account_id == html[user_ref].account_id
                       userkey == html[user_ref].userkey
                       fn == ProfileLookup(client, account_id, userkey)
                   IN ReplaceWith(r, e,
                          ProfileText(account_id, userkey, fn,
                                      IF fn # None THEN ReplyOf(e) ELSE None))
      [] pass = "images" ->
           LET filename == FirstFilename(html, r, e)
               url == ConstructAttachmentDownloadUrl(base_url, page_id, filename)
           IN IF filename = <<>> THEN r
              ELSE ReplaceWith(r, e, IF RaisedAt(e) THEN ImagePlaceholder
                                     ELSE ImageTag(html, r, e, url, filename))
      [] pass = "attachments" ->
           LET filename == html[e].filename
               url == ConstructAttachmentDownloadUrl(base_url, page_id, filename)
           IN IF ~IsBareReference(html, r, e) THEN r
              ELSE ReplaceWith(r, e, IF RaisedAt(e) THEN AttachmentPlaceholder
                                     ELSE ATag(url, filename))
      [] pass = "links" ->
           LET filename == FirstFilename(html, r, e)
               url == ConstructAttachmentDownloadUrl(base_url, page_id, filename)
           IN IF filename = <<>> THEN r
              ELSE ReplaceWith(r, e, IF RaisedAt(e) THEN LinkPlaceholder
                                     ELSE ATag(url, LinkText(html, r, e, filename)))

\* The find_all a pass starts with.
QueueOf(pass, r) ==
    CASE pass \in {"mentions", "links"} -> FindAll(html, r, 0, "ac:link", None)
      [] pass = "profiles" -> FindAll(html, r, 0, "ac:structured-macro", "profile")
      [] pass = "images" -> FindAll(html, r, 0, "ac:image", None)
      [] pass = "attachments" -> FindAll(html, r, 0, "ri:attachment", None)

RECURSIVE RunQueue(_, _, _)
RunQueue(pass, r, q) ==
    IF q = <<>> THEN r ELSE RunQueue(pass, StepOf(pass, r, Head(q)), Tail(q))

RECURSIVE RunPasses(_, _)
RunPasses(order, r) ==
    IF order = <<>> THEN r
    ELSE LET pass == Head(order)
         IN RunPasses(Tail(order), RunQueue(pass, r, QueueOf(pass, r)))

\* The attachment passes first, the mention and profile passes after them.
AttachmentsFirst == <<"images", "attachments", "links", "mentions", "profiles">>

\* Variant: process_html_content runs the attachment passes first.
ImplementedOrder_AttachmentsFirst == AttachmentsFirst

\* The order of process_html_content when the gate is open.
ImplementedOrder == <<"mentions", "profiles", "images", "attachments", "links">>

MarkupOf(order) == Serialize(html, RunPasses(order, NoRepls))
NoMentionWrapsAttachment ==
    \A m, d \in Nodes : (IsMention(m) /\ IsAttachment(d)) => ~InputBelow(d, m)

-----------------------------------------------------------------------------
(* Attachment proxy service (standalone_proxy.py): a process of its own    *)
(* with a module-level cache.  URLs and page content are sequences of      *)
(* chunks; a chunk is one of the fixed pieces of an attachment URL, one    *)
(* character of a file name, or a delimiter.                               *)

MaxRequests == 2
MaxLinks == 2

pipeline == <<instance, pc, args, repl, queue, cursor, calls, passes,
              reprocessed, built, result>>

PageIds == {"12345"}
AttachmentIds == {"att1", "att2"}

\* What a GET sent upstream ends with: a response status, an
\* aiohttp.ClientError, or any other exception.
Upstream == {"200", "404", "403", "500", "ClientError", "Error"}

\* cache_key = f"confluence_attachment_{page_id}_{attachment_id}"
CacheKey(page, attachment) == <<"confluence_attachment_", page, "_", attachment>>

\* The exception that leaves the `async with` block inside try, None when
\* there is none: HTTPException for a status other than 200.
RaisedInTry(up) ==
    CASE up = "200" -> None
      [] up = "ClientError" -> "aiohttp.ClientError"
      [] up = "Error" -> "Exception"
      [] OTHER -> "HTTPException"

\* The except clauses of the handlers: aiohttp.ClientError gives 502, and
\* `except Exception` gives 500 for everything else, HTTPException included.
ExceptClause(exception) ==
    IF exception = "aiohttp.ClientError" THEN "502" ELSE "500"

\* The status a handler answers with when its upstream GET ends with up.
AnswerStatus(up) ==
    IF RaisedInTry(up) = None THEN "200" ELSE ExceptClause(RaisedInTry(up))

Answer(status, key, up, cached) ==
    [status |-> status, key |-> key, upstream |-> up, cached |-> cached]

\* GET {PROXY_BASE_PATH}/confluence/attachment/{page_id}/{attachment_id}
ProxyConfluenceAttachment ==
    /\ Len(requests) < MaxRequests
    /\ \E page \in PageIds, attachment \in AttachmentIds, up \in Upstream :
         LET cache_key == CacheKey(page, attachment)
             content == <<"bytes of ", attachment>>
         IN IF ~config
            THEN /\ answer' = Answer("503", cache_key, None, FALSE)
                 /\ UNCHANGED <<cache, requests>>
            ELSE IF cache_key \in DOMAIN cache
            THEN /\ answer' = Answer("200", cache_key, None, TRUE)
                 /\ UNCHANGED <<cache, requests>>
            ELSE /\ requests' = Append(requests,
                        [url |-> <<"/download/attachments/", page, "/", attachment>>,
                         outcome |-> up])
                 /\ answer' = Answer(AnswerStatus(up), cache_key, up, FALSE)
                 /\ cache' = IF up = "200"
                             THEN cache @@ (cache_key :> [content |-> content])
                             ELSE cache
    /\ UNCHANGED <<pipeline, config, page_answer>>

\* TTLCache(maxsize=1000, ttl=3600): an entry expires.
Expire ==
    /\ \E k \in DOMAIN cache :
         cache' = [x \in DOMAIN cache \ {k} |-> cache[x]]
    /\ UNCHANGED <<pipeline, config, requests, answer, page_answer>>

\* CONFLUENCE_URL.rstrip('/'), and scheme://netloc + PROXY_BASE_PATH of the
\* request.
ConfluenceBase == <<"https://c">>
ProxyBaseUrl == <<"http://p", "/proxy">>

\* The characters pattern [^)\s"']+ stops at.
Terminators == {")", " ", "'"}

\* File names as they stand in links (percent-encoded), and the attachment
\* list of the page: "a.a" and "a a" are attachments, "b" is not.
LinkNames == {<<"a", ".", "a">>, <<"a", "%", "2", "0", "a">>, <<"b">>}
Manifests ==
    LET one == [title |-> <<"a", ".", "a">>, id |-> "att1"]
        two == [title |-> <<"a", " ", "a">>, id |-> "att2"]
    IN {<<>>, <<one>>, <<two>>, <<one, two>>}

\* A link of the page content: relative or with the Confluence base URL in
\* front, between quotes.
PageLink(full, page, name) == [full |-> full, page |-> page, name |-> name]
LinkUrl(link) ==
    (IF link.full THEN ConfluenceBase ELSE <<>>)
    \o <<"/download/attachments/", link.page, "/">> \o link.name
RenderLink(link) == <<"'">> \o LinkUrl(link) \o <<"'">>

RECURSIVE RenderLinks(_)
RenderLinks(links) ==
    IF links = <<>> THEN <<>>
    ELSE RenderLink(Head(links)) \o RenderLinks(Tail(links))

RECURSIVE LinkListsOfLen(_)
LinkListsOfLen(n) ==
    IF n = 0 THEN {<<>>}
    ELSE {Append(l, PageLink(full, page, name)) :
            l \in LinkListsOfLen(n - 1), full \in BOOLEAN,
            page \in PageIds, name \in LinkNames}
LinkLists == UNION {LinkListsOfLen(n) : n \in 0..MaxLinks}

\* urllib.parse.unquote
RECURSIVE Unquote(_)
Unquote(s) ==
    IF s = <<>> THEN <<>>
    ELSE IF Len(s) >= 3 /\ SubSeq(s, 1, 3) = <<"%", "2", "0">>
         THEN <<" ">> \o Unquote(SubSeq(s, 4, Len(s)))
         ELSE <<Head(s)>> \o Unquote(Tail(s))

\* attachment_map = {att.get("title", ""): att.get("id", "") for att in attachments}
AttachmentMap(attachments) ==
    [title \in {attachments[i].title : i \in DOMAIN attachments} |->
       LET last == CHOOSE i \in DOMAIN attachments :
                     /\ attachments[i].title = title
                     /\ \A j \in DOMAIN attachments :
                          attachments[j].title = title => j <= i
       IN attachments[last].id]

\* The longest run of characters of [^)\s"']+ at the start of s.
NameRun(s) ==
    LET n == CHOOSE k \in 0..Len(s) :
               /\ \A i \in 1..k : s[i] \notin Terminators
               /\ k = Len(s) \/ s[k + 1] \in Terminators
    IN SubSeq(s, 1, n)

\* The length of the match of prefix + /download/attachments/(\d+)/([^)\s"']+)
\* at the start of s, 0 when it does not match there.
MatchLen(prefix, s) ==
    LET h == Len(prefix)
    IN IF /\ Len(s) >= h + 4
          /\ SubSeq(s, 1, h) = prefix
          /\ s[h + 1] = "/download/attachments/"
          /\ s[h + 2] \in PageIds
          /\ s[h + 3] = "/"
          /\ s[h + 4] \notin Terminators
       THEN h + 3 + Len(NameRun(SubSeq(s, h + 4, Len(s))))
       ELSE 0

\* replace_relative_link(match)
ReplaceRelativeLink(matched_page_id, group2, group0, attachment_map, proxy_base_url) ==
    LET filename == Unquote(group2)
    IN IF filename \in DOMAIN attachment_map
       THEN proxy_base_url \o <<"/confluence/attachment/", matched_page_id, "/",
                                attachment_map[filename]>>
       ELSE group0

\* re.sub(pattern, replace_relative_link, content): matches are taken from
\* left to right and do not overlap.
RECURSIVE ReSub(_, _, _, _)
ReSub(prefix, s, attachment_map, proxy_base_url) ==
    IF s = <<>> THEN <<>>
    ELSE LET n == MatchLen(prefix, s)
             h == Len(prefix)
         IN IF n = 0
            THEN <<Head(s)>> \o ReSub(prefix, Tail(s), attachment_map, proxy_base_url)
            ELSE ReplaceRelativeLink(s[h + 2], SubSeq(s, h + 4, n), SubSeq(s, 1, n),
                                     attachment_map, proxy_base_url)
                 \o ReSub(prefix, SubSeq(s, n + 1, Len(s)), attachment_map,
                          proxy_base_url)

\* replace_attachment_links: the relative pattern first, over the whole
\* content, then the pattern with the Confluence base URL in front.
ReplaceAttachmentLinks(content, page, proxy_base_url, confluence_base_url, attachments) ==
    LET attachment_map == AttachmentMap(attachments)
        relative == ReSub(<<>>, content, attachment_map, proxy_base_url)
    IN ReSub(confluence_base_url, relative, attachment_map, proxy_base_url)

\* GET {PROXY_BASE_PATH}/confluence/page/{page_id}: the page body with its
\* attachment links rewritten.
ProxyConfluencePage ==
    /\ Len(requests) < MaxRequests
    /\ \E page \in PageIds, up \in Upstream, links \in LinkLists,
          attachments \in Manifests :
         IF ~config
         THEN /\ page_answer' = [status |-> "503"]
              /\ UNCHANGED requests
         ELSE /\ requests' = Append(requests,
                     [url |-> <<"/rest/api/content/", page>>, outcome |-> up])
              /\ page_answer' =
                   IF up = "200"
                   THEN [status |-> "200", links |-> links,
                         attachments |-> attachments,
                         content |-> ReplaceAttachmentLinks(RenderLinks(links),
                                         page, ProxyBaseUrl, ConfluenceBase,
                                         attachments)]
                   ELSE [status |-> AnswerStatus(up)]
    /\ UNCHANGED <<pipeline, config, cache, answer>>

\* The service starts with its configuration complete or not.
ProxyInit ==
    /\ Constructed
    /\ config \in BOOLEAN
    /\ ServiceStarts

ProxyNext ==
    \/ ProxyConfluenceAttachment
    \/ Expire
    \/ ProxyConfluencePage

ProxySpec == ProxyInit /\ [][ProxyNext]_vars

Answered == answer.status # None
Fetched(key) ==
    \E i \in DOMAIN requests :
      /\ CacheKey(requests[i].url[2], requests[i].url[4]) = key
      /\ requests[i].url[1] = "/download/attachments/"
      /\ requests[i].outcome = "200"

(* C24: the attachment endpoint passes an upstream failure status on: an   *)
(* upstream 404 is answered with 404, another status than 200 with that    *)
(* status, 502 is given for a transport error only and 500 for an          *)
(* unexpected error only; an entry is in the cache only after a fetch that *)
(* succeeded, and a cache hit is answered without a request upstream.      *)
C24_StatusPassedOn ==
    /\ Answered =>
         /\ answer.upstream = "404" => answer.status = "404"
         /\ answer.upstream \in {"403", "500"} => answer.status = answer.upstream
         /\ answer.status = "502" => answer.upstream = "ClientError"
         /\ answer.status = "500" => answer.upstream \in {"Error", "500"}
         /\ answer.cached => answer.upstream = None /\ answer.status = "200"
    /\ \A k \in DOMAIN cache : Fetched(k)

\* The link a page link is to become: the proxy URL of the attachment whose
\* title is the decoded file name, the link itself when there is none.
RewrittenLink(link, attachment_map) ==
    LET filename == Unquote(link.name)
    IN <<"'">>
       \o (IF filename \in DOMAIN attachment_map
           THEN ProxyBaseUrl \o <<"/confluence/attachment/", link.page, "/",
                                  attachment_map[filename]>>
           ELSE LinkUrl(link))
       \o <<"'">>

RECURSIVE RewrittenLinks(_, _)
RewrittenLinks(links, attachment_map) ==
    IF links = <<>> THEN <<>>
    ELSE RewrittenLink(Head(links), attachment_map)
         \o RewrittenLinks(Tail(links), attachment_map)

AllRelative(links) == \A i \in DOMAIN links : ~links[i].full

(* C25: replace_attachment_links turns every attachment link whose decoded *)
(* file name is a title of the attachment list into exactly                *)
(* "<proxy_base_url>/confluence/attachment/<page_id>/<attachment_id>", in  *)
(* the relative form and in the full form alike (nothing of the Confluence *)
(* base URL stays in front of it), and leaves every other link as it is.   *)
C25_LinksRewritten ==
    page_answer.status = "200" =>
      page_answer.content =
        RewrittenLinks(page_answer.links, AttachmentMap(page_answer.attachments))

\* The same for page content whose links are all of the relative form.
RelativeLinksRewritten ==
    (page_answer.status = "200" /\ AllRelative(page_answer.links)) =>
      page_answer.content =
        RewrittenLinks(page_answer.links, AttachmentMap(page_answer.attachments))

====
